---- MODULE Spec2Model ----
(***************************************************************************)
(* Model of the Isolation game agent (game_agent.py): the heuristic        *)
(* evaluators, depth-limited minimax, alpha-beta and the two get_move      *)
(* drivers with their SearchTimeout cancellation.                          *)
(***************************************************************************)
EXTENDS Integers, Sequences, FiniteSets, TLC

VARIABLES game, pc, op, arg, clk, best_move, depth, ret, trace, board, hin, hval,
          prev, clk0, puzzle, answer, data, selected

vars == <<game, pc, op, arg, clk, best_move, depth, ret, trace, board, hin, hval,
          prev, clk0, puzzle, answer, data, selected>>
\* what a heuristic evaluation reads and writes, and what a search does
scoring == <<board, hin, hval>>
searching == <<game, arg, clk, best_move, depth, ret, trace>>
\* the decisions already taken, and the clock every decision starts with
deciding == <<prev, clk0>>
\* the Sudoku handed to the solver and what it returned
solving == <<puzzle, answer>>
\* the training data of a model selector and the model it selected
selecting == <<data, selected>>

(***************************************************************************)
(* Bounds of the model.                                                    *)
(***************************************************************************)
\* legal moves of a state that has any
MaxMoves == 2
\* plies below the root at which the game is over for lack of moves
MaxPly == 3
\* the heuristic table of a game is the base-Radix expansion of its seed
MaxSeed == 242
Radix == 3
NumDigits == 5
\* the state whose index is the game's HoleIndex has no legal moves (0: the root)
MaxHole == 4
\* largest depth argument of a direct minimax / alphabeta call
MaxDepth == 3
\* milliseconds above the threshold a ticking clock may start with
MaxBudget == 18
\* games whose seed is a multiple of it are also played against ticking clocks
TimedStride == 10
\* depth at which the iterative deepening loop is no longer followed
MaxIterDepth == 5
\* legal moves a player of a scored board may have, and the board's longest side
MaxCount == 2
MaxSide == 2
Side == 2
MaxGivens == 2
MaxComponents == 4
MaxLogL == 2
MaxLogN == 1
MaxFeatures == 1

(***************************************************************************)
(* Program constants.                                                      *)
(***************************************************************************)
\* IsolationPlayer.__init__(timeout=10.)
TIMER_THRESHOLD == 10
\* IsolationPlayer.__init__(search_depth=3)
search_depth == 3
n_constant == 3
min_n_components == 2
\* float('inf'); every finite score lies strictly between -Inf and Inf
Inf == 1000
NegInf == -Inf
\* the move returned when there is no legal move: (-1, -1)
NoMove == <<-1, -1>>

Max(a, b) == IF a >= b THEN a ELSE b
Min(a, b) == IF a <= b THEN a ELSE b
Range(seq) == {seq[k] : k \in 1..Len(seq)}

(***************************************************************************)
(* Heuristic evaluators.  A board is what they read of isolation.Board:    *)
(* who is to move, each player's legal moves, the board's sides and its    *)
(* blank cells.  A Python value is a float (a fraction, or an infinity     *)
(* when den = 0), an int, or a str.                                        *)
(***************************************************************************)
Players == {"p1", "p2"}

Boards == {b \in [active : Players, moves : [Players -> 0..MaxCount],
                  width : 1..MaxSide, height : 1..MaxSide,
                  blanks : 0..(MaxSide * MaxSide)] :
             b.blanks <= b.width * b.height}

PyInt(n) == [type |-> "int", num |-> n, den |-> 1, str |-> ""]
PyFloat(n, d) == [type |-> "float", num |-> n, den |-> d, str |-> ""]
PyStr(t) == [type |-> "str", num |-> 0, den |-> 1, str |-> t]

\* float(x): of 'inf' and '-inf' the infinities, of a number that number
pyfloat(x) ==
  IF x.type = "str"
  THEN IF x.str = "inf" THEN PyFloat(1, 0) ELSE PyFloat(-1, 0)
  ELSE PyFloat(x.num, x.den)

\* a - b and a * b of finite numbers
Sub(a, b) == [type |-> IF a.type = "int" /\ b.type = "int" THEN "int" ELSE "float",
              num |-> a.num * b.den - b.num * a.den, den |-> a.den * b.den, str |-> ""]
Mul(a, b) == [type |-> IF a.type = "int" /\ b.type = "int" THEN "int" ELSE "float",
              num |-> a.num * b.num, den |-> a.den * b.den, str |-> ""]
\* a / b of ints: true division
TrueDiv(a, b) == PyFloat(a.num, b.num)

\* isolation.Board
get_opponent(b, player) == CHOOSE q \in Players : q # player
is_loser(b, player) == player = b.active /\ b.moves[b.active] = 0
is_winner(b, player) == player # b.active /\ b.moves[b.active] = 0
\* len(game.get_legal_moves(player))
len_legal_moves(b, player) == PyInt(b.moves[player])
len_blank_spaces(b) == PyInt(b.blanks)

opp_diff(b, player) ==
  IF is_winner(b, player) THEN pyfloat(PyStr("inf"))
  ELSE IF is_loser(b, player) THEN pyfloat(PyStr("-inf"))
  ELSE pyfloat(Sub(len_legal_moves(b, player),
                   len_legal_moves(b, get_opponent(b, player))))

opp_diff_defensive(b, player) ==
  IF is_winner(b, player) THEN pyfloat(PyStr("inf"))
  ELSE IF is_loser(b, player) THEN pyfloat(PyStr("-inf"))
  ELSE LET player_moves == len_legal_moves(b, player)
           opponent_moves == len_legal_moves(b, get_opponent(b, player))
           theta == PyInt(2)
       IN pyfloat(Sub(Mul(theta, player_moves), opponent_moves))

opp_diff_aggressive(b, player) ==
  IF is_winner(b, player) THEN pyfloat(PyStr("inf"))
  ELSE IF is_loser(b, player) THEN PyStr("-inf")
  ELSE LET player_moves == len_legal_moves(b, player)
           opponent_moves == len_legal_moves(b, get_opponent(b, player))
           theta == PyInt(2)
       IN pyfloat(Sub(player_moves, Mul(theta, opponent_moves)))

opp_diff_decay(b, player) ==
  IF is_winner(b, player) THEN pyfloat(PyStr("inf"))
  ELSE IF is_loser(b, player) THEN pyfloat(PyStr("-inf"))
  ELSE LET player_moves == len_legal_moves(b, player)
           opponent_moves == len_legal_moves(b, get_opponent(b, player))
           cells == Mul(PyInt(b.height), PyInt(b.width))
           game_ratio == pyfloat(TrueDiv(Sub(cells, len_blank_spaces(b)), cells))
           theta == PyInt(3)
       IN pyfloat(Sub(Mul(Mul(Sub(PyInt(1), game_ratio), theta), player_moves),
                      Mul(game_ratio, opponent_moves)))

custom_score(b, player) == opp_diff_defensive(b, player)
custom_score_2(b, player) == opp_diff(b, player)
custom_score_3(b, player) == opp_diff_decay(b, player)

Evaluators == {"opp_diff", "opp_diff_defensive", "opp_diff_aggressive", "opp_diff_decay",
               "custom_score", "custom_score_2", "custom_score_3"}

Evaluate(fn, b, player) ==
  CASE fn = "opp_diff" -> opp_diff(b, player)
    [] fn = "opp_diff_defensive" -> opp_diff_defensive(b, player)
    [] fn = "opp_diff_aggressive" -> opp_diff_aggressive(b, player)
    [] fn = "opp_diff_decay" -> opp_diff_decay(b, player)
    [] fn = "custom_score" -> custom_score(b, player)
    [] fn = "custom_score_2" -> custom_score_2(b, player)
    [] fn = "custom_score_3" -> custom_score_3(b, player)

(***************************************************************************)
(* Game State View (isolation.Board, consumed through its interface).      *)
(* A state is a game and the path of moves played from its root; the       *)
(* searching player is to move at the root.                                *)
(***************************************************************************)
Games == [seed : 0..MaxSeed, hole : 0..MaxHole]

\* a state: the game, the moves played from its root, and its index in the tree
Root(g) == [g |-> g, path |-> <<>>, index |-> 0]

HoleIndex(h) == (h * (h + 1)) \div 2

Digit(seed, i) == (seed \div (Radix ^ (i % NumDigits))) % Radix

\* game.get_legal_moves(): the moves of the player to move, in enumeration order
get_legal_moves(state) ==
  IF Len(state.path) >= MaxPly \/ state.index = HoleIndex(state.g.hole)
  THEN <<>>
  ELSE [k \in 1..MaxMoves |-> <<Len(state.path), k>>]

\* game.forecast_move(move): a new state, the receiver is left as it was
forecast_move(state, move) ==
  [state EXCEPT !.path = Append(@, move), !.index = @ * MaxMoves + move[2]]

\* self.score(state, self): the configured heuristic, for the searching player
score(state) ==
  IF Len(state.path) < MaxPly /\ state.index = HoleIndex(state.g.hole)
  THEN IF Len(state.path) % 2 = 0 THEN NegInf ELSE Inf
  ELSE Digit(state.g.seed, state.index) - (Radix \div 2)

(***************************************************************************)
(* Deadline clock and the execution context threaded through the search:   *)
(* the remaining time, what one reading costs, and the log of what was     *)
(* done.                                                                   *)
(***************************************************************************)
\* a clock that loses a millisecond at every reading, and one that stands still
Ticking == [now : (TIMER_THRESHOLD - 1)..(TIMER_THRESHOLD + MaxBudget), rate : {1}]
Steady == [now |-> TIMER_THRESHOLD + MaxBudget, rate |-> 0]
Clocks(g) == IF g.seed % TimedStride = 0 THEN Ticking \cup {Steady} ELSE {Steady}

Ctx(clock) == [now |-> clock.now, rate |-> clock.rate, log |-> <<>>]

Log(ctx, e) == [ctx EXCEPT !.log = Append(@, e)]

\* self.time_left(): the reading, and the context after it
time_left(ctx) ==
  [val |-> ctx.now,
   ctx |-> [ctx EXCEPT !.now = @ - ctx.rate, !.log = Append(@, <<"time_left", ctx.now>>)]]

\* outcomes of a call: a value, or SearchTimeout unwinding through it
Return(ctx, v) == [ctx |-> ctx, exc |-> FALSE, val |-> v]
Raise(ctx) == [ctx |-> Log(ctx, <<"raise">>), exc |-> TRUE, val |-> 0]

\* float(x) of a number
float(x) == x

(***************************************************************************)
(* MinimaxPlayer.                                                          *)
(***************************************************************************)
RECURSIVE min_play(_, _, _), max_play(_, _, _)
RECURSIVE min_play_loop(_, _, _, _, _, _), max_play_loop(_, _, _, _, _, _)

\* min_play_loop catching the SearchTimeout of its callee and going on
min_play_loop_catch(state, d, legal_moves, i, lowest_score, ctx) ==
  IF i > Len(legal_moves) THEN Return(ctx, lowest_score)
  ELSE LET future_state_min == forecast_move(state, legal_moves[i])
           c1 == Log(ctx, <<"forecast_move", state.path, legal_moves[i]>>)
           r == max_play(future_state_min, d - 1, c1)
       IN IF r.exc
          THEN min_play_loop(state, d, legal_moves, i + 1, lowest_score, r.ctx)
          ELSE min_play_loop(state, d, legal_moves, i + 1,
                             Min(lowest_score, float(r.val)), r.ctx)

\* for move in legal_moves: lowest_score = min(lowest_score, float(max_play(...)))
min_play_loop(state, d, legal_moves, i, lowest_score, ctx) ==
  IF i > Len(legal_moves) THEN Return(ctx, lowest_score)
  ELSE LET future_state_min == forecast_move(state, legal_moves[i])
           c1 == Log(ctx, <<"forecast_move", state.path, legal_moves[i]>>)
           r == max_play(future_state_min, d - 1, c1)
       IN IF r.exc THEN r
          ELSE min_play_loop(state, d, legal_moves, i + 1,
                             Min(lowest_score, float(r.val)), r.ctx)

\* min_play enumerating the legal moves before it reads the clock
min_play_late(future_state, d, ctx) ==
  LET legal_moves == get_legal_moves(future_state)
      c0 == Log(Log(ctx, <<"call", "min_play", future_state.path, d>>),
                <<"get_legal_moves", future_state.path>>)
      t == time_left(c0)
  IN IF t.val < TIMER_THRESHOLD THEN Raise(t.ctx)
     ELSE IF d = 0 \/ legal_moves = <<>>
          THEN Return(Log(t.ctx, <<"score", future_state.path>>), score(future_state))
          ELSE min_play_loop(future_state, d, legal_moves, 1, Inf, t.ctx)

min_play(future_state, d, ctx) ==
  LET t == time_left(Log(ctx, <<"call", "min_play", future_state.path, d>>))
  IN IF t.val < TIMER_THRESHOLD THEN Raise(t.ctx)
     ELSE LET legal_moves == get_legal_moves(future_state)
              c1 == Log(t.ctx, <<"get_legal_moves", future_state.path>>)
          IN IF d = 0 \/ legal_moves = <<>>
             THEN Return(Log(c1, <<"score", future_state.path>>), score(future_state))
             ELSE min_play_loop(future_state, d, legal_moves, 1, Inf, c1)

\* for move in legal_moves: highest_score = max(highest_score, float(min_play(...)))
max_play_loop(state, d, legal_moves, i, highest_score, ctx) ==
  IF i > Len(legal_moves) THEN Return(ctx, float(highest_score))
  ELSE LET future_state_max == forecast_move(state, legal_moves[i])
           c1 == Log(ctx, <<"forecast_move", state.path, legal_moves[i]>>)
           r == min_play(future_state_max, d - 1, c1)
       IN IF r.exc THEN r
          ELSE max_play_loop(state, d, legal_moves, i + 1,
                             Max(highest_score, float(r.val)), r.ctx)

max_play(future_state, d, ctx) ==
  LET t == time_left(Log(ctx, <<"call", "max_play", future_state.path, d>>))
  IN IF t.val < TIMER_THRESHOLD THEN Raise(t.ctx)
     ELSE LET legal_moves == get_legal_moves(future_state)
              c1 == Log(t.ctx, <<"get_legal_moves", future_state.path>>)
          IN IF d = 0 \/ legal_moves = <<>>
             THEN Return(Log(c1, <<"score", future_state.path>>), score(future_state))
             ELSE max_play_loop(future_state, d, legal_moves, 1, NegInf, c1)

\* outcome of a root call: the move, and the locals best_score / best_move
RootReturn(ctx, move, bs) == [ctx |-> ctx, exc |-> FALSE, val |-> move, best_score |-> bs]
RootRaise(r, bm, bs) == [ctx |-> r.ctx, exc |-> TRUE, val |-> bm, best_score |-> bs]

RECURSIVE minimax_loop(_, _, _, _, _, _, _)
\* minimax_loop handing its own depth, not depth - 1, to min_play
minimax_loop_deep(state, d, legal_moves, i, bs, bm, ctx) ==
  IF i > Len(legal_moves) THEN RootReturn(ctx, bm, bs)
  ELSE LET move == legal_moves[i]
           future_state == forecast_move(state, move)
           c1 == Log(ctx, <<"forecast_move", state.path, move>>)
           r == min_play(future_state, d, c1)
       IN IF r.exc THEN RootRaise(r, bm, bs)
          ELSE IF r.val > bs
               THEN minimax_loop(state, d, legal_moves, i + 1, r.val, move, r.ctx)
               ELSE minimax_loop(state, d, legal_moves, i + 1, bs, bm, r.ctx)

\* minimax_loop comparing with >=, so that the last of equal moves wins
minimax_loop_last(state, d, legal_moves, i, bs, bm, ctx) ==
  IF i > Len(legal_moves) THEN RootReturn(ctx, bm, bs)
  ELSE LET move == legal_moves[i]
           future_state == forecast_move(state, move)
           c1 == Log(ctx, <<"forecast_move", state.path, move>>)
           r == min_play(future_state, d - 1, c1)
       IN IF r.exc THEN RootRaise(r, bm, bs)
          ELSE IF r.val >= bs
               THEN minimax_loop(state, d, legal_moves, i + 1, r.val, move, r.ctx)
               ELSE minimax_loop(state, d, legal_moves, i + 1, bs, bm, r.ctx)

\* for move in legal_moves: score = min_play(...); if score > best_score: ...
minimax_loop(state, d, legal_moves, i, bs, bm, ctx) ==
  IF i > Len(legal_moves) THEN RootReturn(ctx, bm, bs)
  ELSE LET move == legal_moves[i]
           future_state == forecast_move(state, move)
           c1 == Log(ctx, <<"forecast_move", state.path, move>>)
           r == min_play(future_state, d - 1, c1)
       IN IF r.exc THEN RootRaise(r, bm, bs)
          ELSE IF r.val > bs
               THEN minimax_loop(state, d, legal_moves, i + 1, r.val, move, r.ctx)
               ELSE minimax_loop(state, d, legal_moves, i + 1, bs, bm, r.ctx)

minimax(state, d, ctx) ==
  LET t == time_left(Log(ctx, <<"call", "minimax", state.path, d>>))
  IN IF t.val < TIMER_THRESHOLD THEN RootRaise(Raise(t.ctx), NoMove, NegInf)
     ELSE LET legal_moves == get_legal_moves(state)
              c1 == Log(t.ctx, <<"get_legal_moves", state.path>>)
          IN IF legal_moves = <<>> THEN RootReturn(c1, NoMove, NegInf)
             ELSE minimax_loop(state, d, legal_moves, 1, NegInf, legal_moves[1], c1)

\* MinimaxPlayer.get_move: one fixed-depth search, (-1, -1) on SearchTimeout
MinimaxPlayer_get_move(state, clock) ==
  LET bm == NoMove
      r == minimax(state, search_depth, Ctx(clock))
  IN IF r.exc THEN RootReturn(r.ctx, bm, r.best_score)
     ELSE RootReturn(r.ctx, r.val, r.best_score)

(***************************************************************************)
(* AlphaBetaPlayer.                                                        *)
(***************************************************************************)
RECURSIVE ab_min_play(_, _, _, _, _), ab_max_play(_, _, _, _, _)
RECURSIVE ab_min_play_loop(_, _, _, _, _, _, _, _)
RECURSIVE ab_max_play_loop(_, _, _, _, _, _, _, _)

\* ab_min_play_loop with the cut-off test turned round (beta >= alpha)
ab_min_play_loop_cut(state, d, legal_moves, i, lowest_score, alpha, beta, ctx) ==
  IF i > Len(legal_moves) THEN Return(ctx, beta)
  ELSE LET future_state_min == forecast_move(state, legal_moves[i])
           c1 == Log(ctx, <<"forecast_move", state.path, legal_moves[i]>>)
           r == ab_max_play(future_state_min, d - 1, alpha, beta, c1)
           lowest == Min(lowest_score, float(r.val))
           beta1 == Min(beta, lowest)
       IN IF r.exc THEN r
          ELSE IF beta1 >= alpha
               THEN Return(Log(r.ctx, <<"break", state.path, Len(legal_moves) - i>>), beta1)
               ELSE ab_min_play_loop(state, d, legal_moves, i + 1, lowest, alpha, beta1, r.ctx)

\* ab_min_play_loop handing its own depth, not depth - 1, to ab_max_play
ab_min_play_loop_deep(state, d, legal_moves, i, lowest_score, alpha, beta, ctx) ==
  IF i > Len(legal_moves) THEN Return(ctx, beta)
  ELSE LET future_state_min == forecast_move(state, legal_moves[i])
           c1 == Log(ctx, <<"forecast_move", state.path, legal_moves[i]>>)
           r == ab_max_play(future_state_min, d, alpha, beta, c1)
           lowest == Min(lowest_score, float(r.val))
           beta1 == Min(beta, lowest)
       IN IF r.exc THEN r
          ELSE IF beta1 <= alpha
               THEN Return(Log(r.ctx, <<"break", state.path, Len(legal_moves) - i>>), beta1)
               ELSE ab_min_play_loop(state, d, legal_moves, i + 1, lowest, alpha, beta1, r.ctx)

\* for move in legal_moves: ...; beta = min(beta, lowest_score); if beta <= alpha: break
ab_min_play_loop(state, d, legal_moves, i, lowest_score, alpha, beta, ctx) ==
  IF i > Len(legal_moves) THEN Return(ctx, beta)
  ELSE LET future_state_min == forecast_move(state, legal_moves[i])
           c1 == Log(ctx, <<"forecast_move", state.path, legal_moves[i]>>)
           r == ab_max_play(future_state_min, d - 1, alpha, beta, c1)
           lowest == Min(lowest_score, float(r.val))
           beta1 == Min(beta, lowest)
       IN IF r.exc THEN r
          ELSE IF beta1 <= alpha
               THEN Return(Log(r.ctx, <<"break", state.path, Len(legal_moves) - i>>), beta1)
               ELSE ab_min_play_loop(state, d, legal_moves, i + 1, lowest, alpha, beta1, r.ctx)

ab_min_play(future_state, d, alpha, beta, ctx) ==
  LET t == time_left(Log(ctx, <<"call", "ab_min_play", future_state.path, d, alpha, beta>>))
  IN IF t.val < TIMER_THRESHOLD THEN Raise(t.ctx)
     ELSE LET legal_moves == get_legal_moves(future_state)
              c1 == Log(t.ctx, <<"get_legal_moves", future_state.path>>)
          IN IF d = 0 \/ legal_moves = <<>>
             THEN Return(Log(c1, <<"score", future_state.path>>), score(future_state))
             ELSE ab_min_play_loop(future_state, d, legal_moves, 1, Inf, alpha, beta, c1)

\* for move in legal_moves: ...; alpha = max(alpha, highest_score); if alpha >= beta: break
ab_max_play_loop(state, d, legal_moves, i, highest_score, alpha, beta, ctx) ==
  IF i > Len(legal_moves) THEN Return(ctx, alpha)
  ELSE LET future_state_max == forecast_move(state, legal_moves[i])
           c1 == Log(ctx, <<"forecast_move", state.path, legal_moves[i]>>)
           r == ab_min_play(future_state_max, d - 1, alpha, beta, c1)
           highest == Max(highest_score, float(r.val))
           alpha1 == Max(alpha, highest)
       IN IF r.exc THEN r
          ELSE IF alpha1 >= beta
               THEN Return(Log(r.ctx, <<"break", state.path, Len(legal_moves) - i>>), alpha1)
               ELSE ab_max_play_loop(state, d, legal_moves, i + 1, highest, alpha1, beta, r.ctx)

ab_max_play(future_state, d, alpha, beta, ctx) ==
  LET t == time_left(Log(ctx, <<"call", "ab_max_play", future_state.path, d, alpha, beta>>))
  IN IF t.val < TIMER_THRESHOLD THEN Raise(t.ctx)
     ELSE LET legal_moves == get_legal_moves(future_state)
              c1 == Log(t.ctx, <<"get_legal_moves", future_state.path>>)
          IN IF d = 0 \/ legal_moves = <<>>
             THEN Return(Log(c1, <<"score", future_state.path>>), score(future_state))
             ELSE ab_max_play_loop(future_state, d, legal_moves, 1, NegInf, alpha, beta, c1)

RECURSIVE alphabeta_loop(_, _, _, _, _, _, _, _, _)
\* for move in legal_moves: score = ab_min_play(...); if score > beta: return move; ...
alphabeta_loop(state, d, legal_moves, i, alpha, beta, bs, bm, ctx) ==
  IF i > Len(legal_moves) THEN RootReturn(ctx, bm, bs)
  ELSE LET move == legal_moves[i]
           future_state == forecast_move(state, move)
           c1 == Log(ctx, <<"forecast_move", state.path, move>>)
           r == ab_min_play(future_state, d - 1, alpha, beta, c1)
       IN IF r.exc THEN RootRaise(r, bm, bs)
          ELSE IF r.val > beta THEN RootReturn(r.ctx, move, bs)
          ELSE IF r.val > bs
               THEN alphabeta_loop(state, d, legal_moves, i + 1, Max(alpha, r.val), beta,
                                   r.val, move, r.ctx)
               ELSE alphabeta_loop(state, d, legal_moves, i + 1, Max(alpha, r.val), beta,
                                   bs, bm, r.ctx)

\* alphabeta evaluating the heuristic on a root without legal moves
alphabeta_scores_root(state, d, alpha, beta, ctx) ==
  LET t == time_left(Log(ctx, <<"call", "alphabeta", state.path, d, alpha, beta>>))
  IN IF t.val < TIMER_THRESHOLD THEN RootRaise(Raise(t.ctx), NoMove, NegInf)
     ELSE LET legal_moves == get_legal_moves(state)
              c1 == Log(t.ctx, <<"get_legal_moves", state.path>>)
          IN IF legal_moves = <<>>
             THEN RootReturn(Log(c1, <<"score", state.path>>), NoMove, score(state))
             ELSE alphabeta_loop(state, d, legal_moves, 1, alpha, beta,
                                 NegInf, legal_moves[1], c1)

alphabeta(state, d, alpha, beta, ctx) ==
  LET t == time_left(Log(ctx, <<"call", "alphabeta", state.path, d, alpha, beta>>))
  IN IF t.val < TIMER_THRESHOLD THEN RootRaise(Raise(t.ctx), NoMove, NegInf)
     ELSE LET legal_moves == get_legal_moves(state)
              c1 == Log(t.ctx, <<"get_legal_moves", state.path>>)
          IN IF legal_moves = <<>> THEN RootReturn(c1, NoMove, NegInf)
             ELSE alphabeta_loop(state, d, legal_moves, 1, alpha, beta,
                                 NegInf, legal_moves[1], c1)

(***************************************************************************)
(* State machine.                                                          *)
(***************************************************************************)
NoPuzzle == [grid |-> <<>>, values |-> <<>>]
NoAnswer == [kind |-> "none"]
NoData == [lengths |-> <<>>]
NoModel == [kind |-> "none"]
NoRet == [exc |-> FALSE, val |-> NoMove, best_score |-> NegInf]
Outcome(r) == [exc |-> r.exc, val |-> r.val, best_score |-> r.best_score]

NoBoard == [active |-> "p1", moves |-> [q \in Players |-> 0],
            width |-> 1, height |-> 1, blanks |-> 0]
NoInput == [fn |-> "none", player |-> "p1"]

Init ==
  /\ game \in Games
  /\ pc = "idle"
  /\ op = "none"
  /\ arg = [depth |-> 0, alpha |-> NegInf, beta |-> Inf]
  /\ clk \in Clocks(game)
  /\ best_move = NoMove
  /\ depth = 0
  /\ ret = NoRet
  /\ trace = <<>>
  /\ board = NoBoard
  /\ hin = NoInput
  /\ hval = PyInt(0)
  /\ prev = <<>>
  /\ clk0 = clk
  /\ puzzle = NoPuzzle
  /\ answer = NoAnswer
  /\ data = NoData
  /\ selected = NoModel

\* a direct call minimax(game, d)
CallMinimax ==
  /\ pc = "idle"
  /\ \E d \in 0..MaxDepth :
       LET r == minimax(Root(game), d, Ctx(clk))
       IN /\ arg' = [arg EXCEPT !.depth = d]
          /\ ret' = Outcome(r)
          /\ trace' = r.ctx.log
          /\ clk' = [clk EXCEPT !.now = r.ctx.now]
  /\ op' = "minimax"
  /\ pc' = "done"
  /\ UNCHANGED <<game, best_move, depth>>
  /\ UNCHANGED <<scoring, deciding, solving, selecting>>

\* MinimaxPlayer.get_move(game, time_left)
CallMinimaxGetMove ==
  /\ pc = "idle"
  /\ LET r == MinimaxPlayer_get_move(Root(game), clk)
     IN /\ ret' = Outcome(r)
        /\ trace' = r.ctx.log
        /\ clk' = [clk EXCEPT !.now = r.ctx.now]
  /\ op' = "mm_get_move"
  /\ pc' = "done"
  /\ UNCHANGED <<game, arg, best_move, depth>>
  /\ UNCHANGED <<scoring, deciding, solving, selecting>>

\* a direct call alphabeta(game, d), with the default window
CallAlphabeta ==
  /\ pc = "idle"
  /\ \E d \in 0..MaxDepth :
       LET r == alphabeta(Root(game), d, NegInf, Inf, Ctx(clk))
       IN /\ arg' = [arg EXCEPT !.depth = d]
          /\ ret' = Outcome(r)
          /\ trace' = r.ctx.log
          /\ clk' = [clk EXCEPT !.now = r.ctx.now]
  /\ op' = "alphabeta"
  /\ pc' = "done"
  /\ UNCHANGED <<game, best_move, depth>>
  /\ UNCHANGED <<scoring, deciding, solving, selecting>>

\* ABGetMoveStart with best_move initialised to the sentinel (-1, -1)
ABGetMoveStartSentinel ==
  /\ pc = "idle"
  /\ LET legal_moves == get_legal_moves(Root(game))
     IN /\ trace' = <<<<"get_legal_moves", <<>>>>>>
        /\ IF legal_moves = <<>>
           THEN /\ ret' = [NoRet EXCEPT !.val = NoMove]
                /\ pc' = "done"
                /\ UNCHANGED <<best_move, depth>>
           ELSE /\ best_move' = NoMove
                /\ depth' = 1
                /\ pc' = "ab_loop"
                /\ UNCHANGED ret
  /\ op' = "ab_get_move"
  /\ UNCHANGED <<game, arg, clk>>
  /\ UNCHANGED <<scoring, deciding, solving, selecting>>

\* ABGetMoveStart resuming at the depth the decision before it had reached
ABGetMoveStartResume ==
  /\ pc = "idle"
  /\ LET legal_moves == get_legal_moves(Root(game))
     IN /\ trace' = <<<<"get_legal_moves", <<>>>>>>
        /\ IF legal_moves = <<>>
           THEN /\ ret' = [NoRet EXCEPT !.val = NoMove]
                /\ pc' = "done"
                /\ UNCHANGED <<best_move, depth>>
           ELSE /\ best_move' = legal_moves[1]
                /\ depth' = IF depth > 0 THEN depth ELSE 1
                /\ pc' = "ab_loop"
                /\ UNCHANGED ret
  /\ op' = "ab_get_move"
  /\ UNCHANGED <<game, arg, clk>>
  /\ UNCHANGED <<scoring, deciding, solving, selecting>>

\* AlphaBetaPlayer.get_move(game, time_left), up to the iterative deepening loop
ABGetMoveStart ==
  /\ pc = "idle"
  /\ LET legal_moves == get_legal_moves(Root(game))
     IN /\ trace' = <<<<"get_legal_moves", <<>>>>>>
        /\ IF legal_moves = <<>>
           THEN /\ ret' = [NoRet EXCEPT !.val = NoMove]
                /\ pc' = "done"
                /\ UNCHANGED <<best_move, depth>>
           ELSE /\ best_move' = legal_moves[1]
                /\ depth' = 1
                /\ pc' = "ab_loop"
                /\ UNCHANGED ret
  /\ op' = "ab_get_move"
  /\ UNCHANGED <<game, arg, clk>>
  /\ UNCHANGED <<scoring, deciding, solving, selecting>>

\* ABGetMoveIter leaving the loop once a search deeper than the tree returned
ABGetMoveIterExhausted ==
  /\ pc = "ab_loop"
  /\ depth <= MaxIterDepth
  /\ LET r == alphabeta(Root(game), depth, NegInf, Inf,
                        [now |-> clk.now, rate |-> clk.rate, log |-> trace])
     IN /\ trace' = r.ctx.log
        /\ clk' = [clk EXCEPT !.now = r.ctx.now]
        /\ IF r.exc
           THEN /\ ret' = [NoRet EXCEPT !.val = best_move]
                /\ pc' = "done"
                /\ UNCHANGED <<best_move, depth>>
           ELSE IF depth > MaxPly
           THEN /\ ret' = [NoRet EXCEPT !.val = r.val]
                /\ pc' = "done"
                /\ best_move' = r.val
                /\ UNCHANGED depth
           ELSE /\ best_move' = r.val
                /\ depth' = depth + 1
                /\ UNCHANGED <<pc, ret>>
  /\ UNCHANGED <<game, op, arg>>
  /\ UNCHANGED <<scoring, deciding, solving, selecting>>

\* ABGetMoveIter swallowing the timeout inside the loop and deepening on
ABGetMoveIterSwallow ==
  /\ pc = "ab_loop"
  /\ depth <= MaxIterDepth
  /\ LET r == alphabeta(Root(game), depth, NegInf, Inf,
                        [now |-> clk.now, rate |-> clk.rate, log |-> trace])
     IN /\ trace' = r.ctx.log
        /\ clk' = [clk EXCEPT !.now = r.ctx.now]
        /\ best_move' = IF r.exc THEN best_move ELSE r.val
        /\ depth' = depth + 1
        /\ UNCHANGED <<pc, ret>>
  /\ UNCHANGED <<game, op, arg>>
  /\ UNCHANGED <<scoring, deciding, solving, selecting>>

\* ABGetMoveIter keeping the best move of the search that was cancelled
ABGetMoveIterPartial ==
  /\ pc = "ab_loop"
  /\ depth <= MaxIterDepth
  /\ LET r == alphabeta(Root(game), depth, NegInf, Inf,
                        [now |-> clk.now, rate |-> clk.rate, log |-> trace])
     IN /\ trace' = r.ctx.log
        /\ clk' = [clk EXCEPT !.now = r.ctx.now]
        /\ IF r.exc
           THEN /\ ret' = [NoRet EXCEPT !.val = IF r.val = NoMove THEN best_move ELSE r.val]
                /\ pc' = "done"
                /\ UNCHANGED <<best_move, depth>>
           ELSE /\ best_move' = r.val
                /\ depth' = depth + 1
                /\ UNCHANGED <<pc, ret>>
  /\ UNCHANGED <<game, op, arg>>
  /\ UNCHANGED <<scoring, deciding, solving, selecting>>

\* one turn of `while True`: best_move = self.alphabeta(game, depth); depth += 1,
\* left through `except SearchTimeout: pass` and `return best_move`
ABGetMoveIter ==
  /\ pc = "ab_loop"
  /\ depth <= MaxIterDepth
  /\ LET r == alphabeta(Root(game), depth, NegInf, Inf,
                        [now |-> clk.now, rate |-> clk.rate, log |-> trace])
     IN /\ trace' = r.ctx.log
        /\ clk' = [clk EXCEPT !.now = r.ctx.now]
        /\ IF r.exc
           THEN /\ ret' = [NoRet EXCEPT !.val = best_move]
                /\ pc' = "done"
                /\ UNCHANGED <<best_move, depth>>
           ELSE /\ best_move' = r.val
                /\ depth' = depth + 1
                /\ UNCHANGED <<pc, ret>>
  /\ UNCHANGED <<game, op, arg>>
  /\ UNCHANGED <<scoring, deciding, solving, selecting>>

Next ==
  \/ CallMinimax
  \/ CallMinimaxGetMove
  \/ CallAlphabeta
  \/ ABGetMoveStart
  \/ ABGetMoveIter

Spec == Init /\ [][Next]_vars

(***************************************************************************)
(* The get_move drivers alone, and a caller that asks the same player for  *)
(* a second decision on the same state with a fresh clock that behaves as  *)
(* the first did.  Only self.time_left was assigned by the first decision. *)
(***************************************************************************)
NextGetMove ==
  \/ CallMinimaxGetMove
  \/ ABGetMoveStart
  \/ ABGetMoveIter

\* The program is one thread that keeps running: a loop that can take its
\* next turn takes it.  ABGetMoveIter is enabled exactly while pc = "ab_loop"
\* (below the cap of the model), and each of its steps either returns or
\* adds one to depth, so weak fairness of this change of <<pc, depth>> is
\* weak fairness of ABGetMoveIter.
LoopStep ==
  /\ pc = "ab_loop"
  /\ depth <= MaxIterDepth
  /\ \/ pc' = "done" /\ depth' = depth
     \/ pc' = pc /\ depth' = depth + 1

SpecLive == Init /\ [][NextGetMove]_vars /\ WF_<<pc, depth>>(LoopStep)

GetMoveAgain ==
  /\ pc = "done"
  /\ op \in {"mm_get_move", "ab_get_move"}
  /\ prev = <<>>
  /\ prev' = <<[op |-> op, val |-> ret.val]>>
  /\ clk' = clk0
  /\ trace' = <<>>
  /\ pc' = "idle"
  /\ UNCHANGED <<game, op, arg, best_move, depth, ret, clk0>>
  /\ UNCHANGED <<scoring, solving, selecting>>

NextTwice ==
  \/ CallMinimaxGetMove
  \/ ABGetMoveStart
  \/ ABGetMoveIter
  \/ GetMoveAgain

SpecTwice == Init /\ [][NextTwice]_vars

(***************************************************************************)
(* The heuristic evaluators applied to a board, for either player.         *)
(***************************************************************************)
InitScore ==
  /\ board \in Boards
  /\ hin = NoInput
  /\ hval = PyInt(0)
  /\ pc = "idle"
  /\ op = "none"
  /\ game = [seed |-> 0, hole |-> 0]
  /\ arg = [depth |-> 0, alpha |-> NegInf, beta |-> Inf]
  /\ clk = Steady
  /\ best_move = NoMove
  /\ depth = 0
  /\ ret = NoRet
  /\ trace = <<>>
  /\ prev = <<>>
  /\ clk0 = clk
  /\ puzzle = NoPuzzle
  /\ answer = NoAnswer
  /\ data = NoData
  /\ selected = NoModel

\* score_fn(game, player)
CallScore ==
  /\ pc = "idle"
  /\ \E fn \in Evaluators, player \in Players :
       /\ hin' = [fn |-> fn, player |-> player]
       /\ hval' = Evaluate(fn, board, player)
  /\ op' = "score"
  /\ pc' = "done"
  /\ UNCHANGED board
  /\ UNCHANGED <<searching, deciding, solving, selecting>>

NextScore == CallScore

SpecScore == InitScore /\ [][NextScore]_vars

(***************************************************************************)
(* Sudoku_Solver/solution.py: the diagonal Sudoku solver, on a board of    *)
(* Side x Side squares of Side x Side boxes (the program's board has       *)
(* squares of side 3).  Rows, columns and digits are numbered 1..Width; a  *)
(* box is <<row, column>>.  A candidate string is always '123456789' with  *)
(* some digits deleted, so it is represented by the set of its digits,     *)
(* read in ascending order.  The copies assign_value appends to the        *)
(* global `assignments` for the visualiser are not part of the model.      *)
(***************************************************************************)
Width == Side * Side
Digits == 1..Width
rows == [i \in 1..Width |-> i]
cols == [i \in 1..Width |-> i]
reversed_cols == [i \in 1..Width |-> Width + 1 - i]

\* [s + t for s in A for t in B]
cross(A, B) ==
  [k \in 1..(Len(A) * Len(B)) |-> <<A[((k - 1) \div Len(B)) + 1], B[((k - 1) % Len(B)) + 1]>>]

boxes == cross(rows, cols)
BoxSet == Range(boxes)
\* the position of a box in `boxes`, the order of the keys of a values dict
BoxIndex(s) == (s[1] - 1) * Width + s[2]

Bands == [b \in 1..Side |-> [i \in 1..Side |-> (b - 1) * Side + i]]
row_units == [r \in 1..Width |-> cross(<<rows[r]>>, cols)]
col_units == [c \in 1..Width |-> cross(rows, <<cols[c]>>)]
square_units ==
  [k \in 1..Width |-> cross(Bands[((k - 1) \div Side) + 1], Bands[((k - 1) % Side) + 1])]
diagonal_units == << [i \in 1..Width |-> <<rows[i], cols[i]>>],
                     [i \in 1..Width |-> <<rows[i], reversed_cols[i]>>] >>

\* unit_list of a Sudoku without the two diagonals
unit_list_plain == row_units \o col_units \o square_units

unit_list == row_units \o col_units \o square_units \o diagonal_units

units == [s \in BoxSet |-> SelectSeq(unit_list, LAMBDA u : s \in Range(u))]
peers == [s \in BoxSet |-> (UNION {Range(units[s][k]) : k \in 1..Len(units[s])}) \ {s}]

\* the characters of a candidate string, in order
Chars(str) == SelectSeq([d \in 1..Width |-> d], LAMBDA d : d \in str)

\* a dict is a value, not a rule to compute one: comparing it evaluates it
dict(f) == IF f = <<>> THEN f ELSE f

\* make_dictionary(grid): '.' (written 0) becomes all digits, a digit itself
make_dictionary(grid) ==
  dict([s \in BoxSet |-> IF grid[BoxIndex(s)] = 0 THEN Digits ELSE {grid[BoxIndex(s)]}])

\* assign_value(values, box, value)
assign_value(values, box, value) ==
  IF values[box] = value THEN values ELSE [values EXCEPT ![box] = value]

Solved(values) == SelectSeq(boxes, LAMBDA box : Cardinality(values[box]) = 1)

RECURSIVE eliminate_loop(_, _, _)
\* for box in solved_values: digit = values[box]; every peer loses digit
eliminate_loop(values, solved_values, i) ==
  IF i > Len(solved_values) THEN values
  ELSE LET box == solved_values[i]
           digit == values[box]
       IN eliminate_loop(dict([s \in BoxSet |-> IF s \in peers[box]
                                                 THEN values[s] \ digit
                                                 ELSE values[s]]),
                         solved_values, i + 1)

eliminate(values) == eliminate_loop(values, Solved(values), 1)

RECURSIVE only_choice_digits(_, _, _), only_choice_units(_, _)
\* for digit in '123456789': the one box of the unit that can take it gets it
only_choice_digits(values, unit, digit) ==
  IF digit > Width THEN values
  ELSE LET dplaces == SelectSeq(unit, LAMBDA box : digit \in values[box])
       IN IF Len(dplaces) = 1
          THEN only_choice_digits(assign_value(values, dplaces[1], {digit}), unit, digit + 1)
          ELSE only_choice_digits(values, unit, digit + 1)

\* for unit in unit_list: ...
only_choice_units(values, u) ==
  IF u > Len(unit_list) THEN values
  ELSE LET assigned == only_choice_digits(values, unit_list[u], 1)
       IN IF assigned = values
          THEN only_choice_units(values, u + 1)
          ELSE only_choice_units(assigned, u + 1)

only_choice(values) == only_choice_units(values, 1)

\* One unit of naked_twins: maybe_naked are the two-candidate boxes of the
\* unit in order; naked_count is 1 plus the number of pairs (an earlier
\* label, a later box) with equal candidates; only naked_count == 2, that
\* is exactly one such pair, removes its two digits from the other boxes.
naked_twins_unit(values, unit) ==
  LET maybe_naked == SelectSeq(unit, LAMBDA box : Cardinality(values[box]) = 2)
      matches == {m \in (1..Len(maybe_naked)) \X (1..Len(maybe_naked)) :
                    /\ m[1] < m[2]
                    /\ values[maybe_naked[m[1]]] = values[maybe_naked[m[2]]]}
      naked_count == 1 + Cardinality(matches)
  IN IF naked_count = 2
     THEN LET m == CHOOSE m \in matches : TRUE
              twins == {maybe_naked[m[1]], maybe_naked[m[2]]}
              naked_values == values[maybe_naked[m[2]]]
          IN dict([s \in BoxSet |-> IF s \in Range(unit) /\ s \notin twins
                                    THEN values[s] \ naked_values
                                    ELSE values[s]])
     ELSE values

RECURSIVE naked_twins_units(_, _)
\* for unit in unit_list: ...
naked_twins_units(values, u) ==
  IF u > Len(unit_list) THEN values
  ELSE LET eliminated == naked_twins_unit(values, unit_list[u])
       IN IF eliminated = values
          THEN naked_twins_units(values, u + 1)
          ELSE naked_twins_units(eliminated, u + 1)

\* naked_twins(values): `board_before = values` and `board_after = values`
\* name the same dict, so board_before == board_after holds after the first
\* pass over the units and `while not no_more_twins` runs its body once.
naked_twins(values) == naked_twins_units(values, 1)

\* what the solver functions return: a values dict, False, or None
Dict(values) == [kind |-> "dict", values |-> values]
PyFalse == [kind |-> "False"]
PyNone == [kind |-> "None"]

RECURSIVE reduce_puzzle(_)
\* one turn of `while not stalled`, and the turns after it
reduce_puzzle(values) ==
  LET solved_values_before == Len(Solved(values))
      reduced == naked_twins(only_choice(eliminate(values)))
      solved_values_after == Len(Solved(reduced))
      stalled == solved_values_before = solved_values_after
  IN IF \E box \in BoxSet : reduced[box] = {} THEN PyFalse
     ELSE IF stalled THEN Dict(reduced)
     ELSE reduce_puzzle(reduced)

RECURSIVE search(_), search_loop(_, _, _, _)
\* for value in values[s]: ... if attempt: return attempt; the function ends
\* after the loop without a return statement
search_loop(values, s, candidates, i) ==
  IF i > Len(candidates) THEN PyNone
  ELSE LET new_sudoku == [values EXCEPT ![s] = {candidates[i]}]
           attempt == search(new_sudoku)
       IN IF attempt.kind = "dict" THEN attempt
          ELSE search_loop(values, s, candidates, i + 1)

search(values) ==
  LET reduced == reduce_puzzle(values)
  IN IF reduced.kind = "False" THEN PyFalse
     ELSE IF \A s \in BoxSet : Cardinality(reduced.values[s]) = 1 THEN reduced
     ELSE LET open == SelectSeq(boxes, LAMBDA s : Cardinality(reduced.values[s]) > 1)
              n == CHOOSE n \in {Cardinality(reduced.values[open[k]]) : k \in 1..Len(open)} :
                     \A k \in 1..Len(open) : n <= Cardinality(reduced.values[open[k]])
              s == SelectSeq(open, LAMBDA b : Cardinality(reduced.values[b]) = n)[1]
          IN search_loop(reduced.values, s, Chars(reduced.values[s]), 1)

solve(grid) == search(make_dictionary(grid))

(***************************************************************************)
(* The solver called on a puzzle: a grid with at most MaxGivens given      *)
(* digits, or a values dict in which the boxes of TwinBoxes hold one of    *)
(* the candidate strings of TwinChoices and every other box all digits.    *)
(***************************************************************************)
EmptyGrid == [k \in 1..(Width * Width) |-> 0]

RECURSIVE GridsWith(_)
GridsWith(n) ==
  IF n = 0 THEN {EmptyGrid}
  ELSE LET fewer == GridsWith(n - 1)
       IN fewer \cup {[g EXCEPT ![p] = d] : g \in fewer, p \in 1..(Width * Width), d \in Digits}

TwinBoxes == {<<1, 1>>, <<1, 2>>, <<2, 2>>, <<3, 2>>}
TwinChoices == {{1, 2}, {1, 2, 3}, {Width - 1, Width}, Digits}
TwinDicts ==
  {[s \in BoxSet |-> IF s \in TwinBoxes THEN f[s] ELSE Digits] : f \in [TwinBoxes -> TwinChoices]}

Puzzles(givens) ==
  {[grid |-> g, values |-> make_dictionary(g)] : g \in GridsWith(givens)}
  \cup {[grid |-> EmptyGrid, values |-> v] : v \in TwinDicts}

InitSudoku ==
  /\ puzzle \in Puzzles(MaxGivens)
  /\ answer = NoAnswer
  /\ pc = "idle"
  /\ op = "none"
  /\ game = [seed |-> 0, hole |-> 0]
  /\ arg = [depth |-> 0, alpha |-> NegInf, beta |-> Inf]
  /\ clk = Steady
  /\ best_move = NoMove
  /\ depth = 0
  /\ ret = NoRet
  /\ trace = <<>>
  /\ board = NoBoard
  /\ hin = NoInput
  /\ hval = PyInt(0)
  /\ prev = <<>>
  /\ clk0 = clk
  /\ data = NoData
  /\ selected = NoModel

\* solve(grid)
CallSolve ==
  /\ pc = "idle"
  /\ answer' = solve(puzzle.grid)
  /\ op' = "solve"
  /\ pc' = "done"
  /\ UNCHANGED puzzle
  /\ UNCHANGED <<searching, scoring, deciding, selecting>>

\* search(values)
CallSearch ==
  /\ pc = "idle"
  /\ answer' = search(puzzle.values)
  /\ op' = "search"
  /\ pc' = "done"
  /\ UNCHANGED puzzle
  /\ UNCHANGED <<searching, scoring, deciding, selecting>>

\* naked_twins(values)
CallNakedTwins ==
  /\ pc = "idle"
  /\ answer' = Dict(naked_twins(puzzle.values))
  /\ op' = "naked_twins"
  /\ pc' = "done"
  /\ UNCHANGED puzzle
  /\ UNCHANGED <<searching, scoring, deciding, selecting>>

NextSudoku ==
  \/ CallSolve
  \/ CallSearch
  \/ CallNakedTwins

SpecSudoku == InitSudoku /\ [][NextSudoku]_vars

(***************************************************************************)
(* HMM_v1/my_model_selectors.py: SelectorBIC.  GaussianHMM is a library:   *)
(* for each number of states its fit succeeds or raises, and the score of  *)
(* a fitted model is a log likelihood or raises; with the fixed            *)
(* random_state both depend only on the number of states.  Log likelihoods *)
(* and log N are integers here.                                            *)
(***************************************************************************)
Components == min_n_components..MaxComponents
LogLs == (0 - MaxLogL)..0
ScoreOutcomes == {[exc |-> TRUE, val |-> 0]} \cup {[exc |-> FALSE, val |-> v] : v \in LogLs}

\* a selector after ModelSelector.__init__, with what the library will do
DataSets ==
  [fit : [Components -> BOOLEAN],
   score : [Components -> ScoreOutcomes],
   n_features : 1..MaxFeatures,
   log_N : 0..MaxLogN,
   n_constant : {n_constant},
   min_n_components : {min_n_components},
   max_n_components : (min_n_components - 1)..MaxComponents]

Model(n) == [kind |-> "model", n_components |-> n]

\* base_model(num_states): the fitted model, or None when fit raises
base_model(d, num_states) ==
  IF d.fit[num_states] THEN Model(num_states) ELSE PyNone

RECURSIVE SelectorBIC_loop_last(_, _, _, _)
\* SelectorBIC_loop replacing the best model also on an equal score
SelectorBIC_loop_last(d, n, best_model, best_score) ==
  IF n > d.max_n_components THEN best_model
  ELSE LET model == base_model(d, n)
       IN IF model = PyNone \/ d.score[n].exc
          THEN SelectorBIC_loop_last(d, n + 1, best_model, best_score)
          ELSE LET log_L == d.score[n].val
                   p == n * n + 2 * n * d.n_features - 1
                   bic == (0 - 2) * log_L + p * d.log_N
               IN IF bic <= best_score
                  THEN SelectorBIC_loop_last(d, n + 1, model, bic)
                  ELSE SelectorBIC_loop_last(d, n + 1, best_model, best_score)

RECURSIVE SelectorBIC_loop(_, _, _, _)
\* for n in range(min_n_components, max_n_components + 1): try: ... except: pass
\* (model.score on None raises AttributeError, which the except swallows)
SelectorBIC_loop(d, n, best_model, best_score) ==
  IF n > d.max_n_components THEN best_model
  ELSE LET model == base_model(d, n)
       IN IF model = PyNone \/ d.score[n].exc
          THEN SelectorBIC_loop(d, n + 1, best_model, best_score)
          ELSE LET log_L == d.score[n].val
                   p == n * n + 2 * n * d.n_features - 1
                   bic == (0 - 2) * log_L + p * d.log_N
               IN IF bic < best_score
                  THEN SelectorBIC_loop(d, n + 1, model, bic)
                  ELSE SelectorBIC_loop(d, n + 1, best_model, best_score)

\* SelectorBIC.select()
SelectorBIC_select(d) ==
  LET best_model == SelectorBIC_loop(d, d.min_n_components, PyNone, Inf)
  IN IF best_model = PyNone THEN base_model(d, d.n_constant) ELSE best_model

InitBIC ==
  /\ data \in DataSets
  /\ selected = NoModel
  /\ pc = "idle"
  /\ op = "none"
  /\ game = [seed |-> 0, hole |-> 0]
  /\ arg = [depth |-> 0, alpha |-> NegInf, beta |-> Inf]
  /\ clk = Steady
  /\ best_move = NoMove
  /\ depth = 0
  /\ ret = NoRet
  /\ trace = <<>>
  /\ board = NoBoard
  /\ hin = NoInput
  /\ hval = PyInt(0)
  /\ prev = <<>>
  /\ clk0 = clk
  /\ puzzle = NoPuzzle
  /\ answer = NoAnswer

\* SelectorBIC(...).select()
CallSelectBIC ==
  /\ pc = "idle"
  /\ selected' = SelectorBIC_select(data)
  /\ op' = "select"
  /\ pc' = "done"
  /\ UNCHANGED data
  /\ UNCHANGED <<searching, scoring, deciding, solving>>

NextBIC == CallSelectBIC

SpecBIC == InitBIC /\ [][NextBIC]_vars

(***************************************************************************)
(* What the properties read from a state.                                  *)
(***************************************************************************)
Done(o) == pc = "done" /\ op = o
Events(log, kind) == SelectSeq(log, LAMBDA e : e[1] = kind)
Has(log, kind) == \E k \in 1..Len(log) : log[k][1] = kind
RootMoves == get_legal_moves(Root(game))
\* the same search on the same state with a clock that never expires
FullMinimax(d) == minimax(Root(game), d, Ctx(Steady))
FullAlphabeta(d) == alphabeta(Root(game), d, NegInf, Inf, Ctx(Steady))
\* a break that left siblings unexplored
Pruned(log) == \E k \in 1..Len(log) : log[k][1] = "break" /\ log[k][3] > 0

(***************************************************************************)
(* C1: with no deadline expiry, alphabeta(state, d) called with the        *)
(* default window returns the move minimax(state, d) returns, with the     *)
(* same root best score, for every state and every depth d >= 0.           *)
(***************************************************************************)
AlphaBetaEqualsMinimax ==
  (Done("alphabeta") /\ ~ret.exc) =>
     /\ ret.val = FullMinimax(arg.depth).val
     /\ ret.best_score = FullMinimax(arg.depth).best_score

\* alpha-beta pruned siblings and still chose the second move, as minimax does
AlphaBetaEqualsMinimaxWitness ==
  /\ Done("alphabeta") /\ ~ret.exc /\ arg.depth = 3
  /\ Pruned(trace)
  /\ ret.val = <<0, 2>>
  /\ ret.val = FullMinimax(3).val

(***************************************************************************)
(* C2: both get_move drivers return one of the root's legal moves whenever *)
(* the root has one, wherever the deadline interrupts the search; the      *)
(* sentinel (-1, -1) is returned only when there is no legal move.         *)
(***************************************************************************)
GetMoveReturnsLegalMove ==
  (Done("mm_get_move") \/ Done("ab_get_move")) =>
     /\ RootMoves # <<>> => ret.val \in Range(RootMoves)
     /\ ret.val = NoMove => RootMoves = <<>>

(***************************************************************************)
(* C3: AlphaBetaPlayer.get_move cancelled before its depth-1 search        *)
(* completed.  As claimed it returns the sentinel (-1, -1); the code       *)
(* returns the first legal move of the root, the initial best_move.        *)
(***************************************************************************)
CancelledBeforeDepth1 == Done("ab_get_move") /\ depth = 1 /\ Has(trace, "raise")

CancelBeforeDepth1ReturnsSentinel == CancelledBeforeDepth1 => ret.val = NoMove

CancelBeforeDepth1ReturnsFirstMove == CancelledBeforeDepth1 => ret.val = RootMoves[1]

\* cancelled inside the depth-1 search, whose full run would pick another move
CancelBeforeDepth1Witness ==
  /\ CancelledBeforeDepth1
  /\ Has(trace, "score")
  /\ FullAlphabeta(1).val # RootMoves[1]
  /\ ret.val = RootMoves[1]

(***************************************************************************)
(* C4: AlphaBetaPlayer.get_move whose depth-k search completed (k >= 1)    *)
(* and whose depth-(k+1) search was cancelled returns the move that        *)
(* alphabeta(state, k) returns, whatever the cancelled search had done.    *)
(***************************************************************************)
CancelledAfterDepth(k) == Done("ab_get_move") /\ depth = k + 1 /\ Has(trace, "raise")

CancelKeepsLastCompletedDepth ==
  \A k \in 1..MaxIterDepth :
     CancelledAfterDepth(k) => ret.val = FullAlphabeta(k).val

\* depth 2 completed and depth 3 was cancelled after it had scored states;
\* the completed depth's move is neither the first move nor the deeper answer
CancelKeepsLastCompletedDepthWitness ==
  /\ CancelledAfterDepth(2)
  /\ ret.val = FullAlphabeta(2).val
  /\ ret.val # RootMoves[1]
  /\ ret.val # FullAlphabeta(3).val
  /\ \E i, j \in 1..Len(trace) :
        /\ i < j
        /\ trace[i] = <<"call", "alphabeta", <<>>, 3, NegInf, Inf>>
        /\ trace[j][1] = "score"

(***************************************************************************)
(* C5: a SearchTimeout raised in any frame is caught by no frame but       *)
(* get_move (nothing is done after it is raised, and a direct minimax or   *)
(* alphabeta call ends with it), and get_move never lets it escape: it     *)
(* returns one move, a legal move of the root or the sentinel.             *)
(***************************************************************************)
TimeoutUnwindsToGetMove ==
  /\ pc = "done" /\ Has(trace, "raise") =>
        /\ trace[Len(trace)][1] = "raise"
        /\ Len(Events(trace, "raise")) = 1
        /\ op \in {"minimax", "alphabeta"} => ret.exc
  /\ pc = "done" /\ ret.exc => Has(trace, "raise")
  /\ (Done("mm_get_move") \/ Done("ab_get_move")) =>
        /\ ~ret.exc
        /\ ret.val \in Range(RootMoves) \cup {NoMove}

\* the timeout was raised two plies below the root and get_move returned
TimeoutUnwindsToGetMoveWitness ==
  /\ Done("mm_get_move")
  /\ Has(trace, "raise")
  /\ LET calls == Events(trace, "call")
     IN Len(calls[Len(calls)][3]) >= 2
  /\ ~ret.exc

(***************************************************************************)
(* Reference notions the properties compare the searches with.             *)
(***************************************************************************)
RECURSIVE Play(_, _)
\* the state reached from `state` by the moves of `path`
Play(state, path) ==
  IF path = <<>> THEN state ELSE Play(forecast_move(state, Head(path)), Tail(path))

SetMax(S) == CHOOSE x \in S : \A y \in S : y <= x
SetMin(S) == CHOOSE x \in S : \A y \in S : x <= y

\* the first index at which f attains its maximum over 1..n
FirstMax(f, n) == CHOOSE k \in 1..n : /\ \A j \in 1..n : f[j] <= f[k]
                                      /\ \A j \in 1..(k - 1) : f[j] < f[k]

RECURSIVE RefValue(_, _, _)
\* depth-limited minimax value: the heuristic d plies down or where no move is
\* left, the maximum at own layers and the minimum at the opponent's
RefValue(state, d, own) ==
  LET lm == get_legal_moves(state)
      vals == {RefValue(forecast_move(state, lm[k]), d - 1, ~own) : k \in 1..Len(lm)}
  IN IF d = 0 \/ lm = <<>> THEN score(state)
     ELSE IF own THEN SetMax(vals) ELSE SetMin(vals)

RECURSIVE RefLeaves(_, _)
\* the paths of the states at which that value reads the heuristic
RefLeaves(state, d) ==
  LET lm == get_legal_moves(state)
  IN IF d = 0 \/ lm = <<>> THEN {state.path}
     ELSE UNION {RefLeaves(forecast_move(state, lm[k]), d - 1) : k \in 1..Len(lm)}

Paths(log, kind) == {log[k][IF kind = "call" THEN 3 ELSE 2] :
                       k \in {j \in 1..Len(log) : log[j][1] = kind}}

\* the root's move that the values d - 1 plies below its successors select
RefMove(d) ==
  LET v == [k \in 1..Len(RootMoves) |->
               RefValue(forecast_move(Root(game), RootMoves[k]), d - 1, FALSE)]
  IN RootMoves[FirstMax(v, Len(RootMoves))]

Searched(d) ==
  /\ Done("minimax") \/ Done("alphabeta")
  /\ ~ret.exc /\ arg.depth = d /\ RootMoves # <<>>

\* the move whose successor scores highest, first in enumeration order, was
\* returned and the heuristic was read on the root's successors only
PicksBestSuccessor ==
  /\ ret.val = RefMove(1)
  /\ Paths(trace, "score") = {<<m>> : m \in Range(RootMoves)}
  /\ Len(Events(trace, "score")) = Len(RootMoves)

(***************************************************************************)
(* C6: the fixed-depth searches return the legal move whose immediate      *)
(* successor has the highest heuristic value, ties broken by enumeration   *)
(* order, reading the heuristic on the root's immediate successors only.   *)
(* As claimed this is the search at depth 0; the code does it at depth 1   *)
(* (at depth 0 the depth counter starts below zero and never reaches it).  *)
(***************************************************************************)
Depth0PicksBestSuccessor == Searched(0) => PicksBestSuccessor

Depth1PicksBestSuccessor == Searched(1) => PicksBestSuccessor

\* depth 1 chose the second move, which a search one ply deeper would not
Depth1PicksBestSuccessorWitness ==
  /\ Searched(1) /\ op = "minimax"
  /\ ret.val = RootMoves[2]
  /\ FullMinimax(2).val # ret.val

(***************************************************************************)
(* C7: on a root without legal moves minimax and alphabeta return the      *)
(* sentinel at every depth and both get_move drivers return the sentinel,  *)
(* without evaluating the heuristic or generating a successor.  As claimed *)
(* this is unconditional; in the code the deadline check comes first, and  *)
(* minimax / alphabeta entered with the clock below the threshold raise    *)
(* SearchTimeout instead of returning.                                     *)
(***************************************************************************)
NoMovesCall == pc = "done" /\ RootMoves = <<>> /\ op # "score"
NothingEvaluated == ~Has(trace, "score") /\ ~Has(trace, "forecast_move")

NoLegalMovesReturnsSentinel ==
  NoMovesCall => ~ret.exc /\ ret.val = NoMove /\ NothingEvaluated

NoLegalMovesSentinelUnlessExpired ==
  NoMovesCall =>
     /\ NothingEvaluated
     /\ op \in {"mm_get_move", "ab_get_move"} => ~ret.exc /\ ret.val = NoMove
     /\ op \in {"minimax", "alphabeta"} =>
           /\ ret.exc <=> trace[2][2] < TIMER_THRESHOLD
           /\ ~ret.exc => ret.val = NoMove

\* alphabeta at depth 3 on a root without moves, the clock still running
NoLegalMovesWitness ==
  /\ NoMovesCall /\ op = "alphabeta" /\ arg.depth = 3
  /\ clk.rate = 1
  /\ ~ret.exc /\ ret.val = NoMove

(***************************************************************************)
(* C8: with no deadline expiry, on a root with legal moves and for d >= 1, *)
(* minimax(state, d) returns the first move in enumeration order attaining *)
(* the maximum depth-limited minimax value, reads the heuristic exactly at *)
(* the states d plies below the root and at shallower states without legal *)
(* moves, and visits no state deeper than d plies.                         *)
(***************************************************************************)
MinimaxReturnsFirstBest ==
  \A d \in 1..MaxDepth :
     Searched(d) /\ op = "minimax" =>
        /\ ret.val = RefMove(d)
        /\ ret.best_score = RefValue(Root(game), d, TRUE)
        /\ Paths(trace, "score") = RefLeaves(Root(game), d)
        /\ Len(Events(trace, "score")) = Cardinality(RefLeaves(Root(game), d))
        /\ \A p \in Paths(trace, "call") : Len(p) <= d

\* a tie at depth 3 resolved for the first move, every state scored lying
\* three plies below the root
MinimaxReturnsFirstBestWitness ==
  /\ Searched(3) /\ op = "minimax"
  /\ RefValue(forecast_move(Root(game), RootMoves[1]), 2, FALSE)
       = RefValue(forecast_move(Root(game), RootMoves[2]), 2, FALSE)
  /\ ret.val = RootMoves[1]
  /\ \A p \in Paths(trace, "score") : Len(p) = 3

(***************************************************************************)
(* C9: with no deadline expiry, alphabeta with the default window makes at *)
(* most as many calls (root and ab_min_play / ab_max_play entries) as      *)
(* minimax makes on the same state and depth.  As claimed the counts are   *)
(* equal only when no break is taken; in the code a break taken after the  *)
(* last sibling of a layer skips nothing, so the counts are equal only     *)
(* when no break leaves a sibling unexplored.                              *)
(***************************************************************************)
NumCalls(log) == Len(Events(log, "call"))

AlphaBetaSearched == Done("alphabeta") /\ ~ret.exc

FewerCallsUnlessNoBreak ==
  AlphaBetaSearched =>
     LET a == NumCalls(trace)
         m == NumCalls(FullMinimax(arg.depth).ctx.log)
     IN a <= m /\ (a = m => ~Has(trace, "break"))

FewerCallsUnlessNothingPruned ==
  AlphaBetaSearched =>
     LET a == NumCalls(trace)
         m == NumCalls(FullMinimax(arg.depth).ctx.log)
     IN a <= m /\ (a = m => ~Pruned(trace))

\* a depth-3 search in which a break skipped a sibling and calls were saved
FewerCallsWitness ==
  /\ AlphaBetaSearched /\ arg.depth = 3
  /\ Pruned(trace)
  /\ NumCalls(trace) < NumCalls(FullMinimax(3).ctx.log)

(***************************************************************************)
(* C10: every heuristic evaluator returns a number for every board and     *)
(* player: +infinity if the player has won, -infinity if the player has    *)
(* lost, a finite number otherwise.                                        *)
(***************************************************************************)
EvaluatorReturnsNumber ==
  Done("score") =>
     /\ hval.type \in {"float", "int"}
     /\ is_winner(board, hin.player) => hval = PyFloat(1, 0)
     /\ is_loser(board, hin.player) => hval = PyFloat(-1, 0)
     /\ ~is_winner(board, hin.player) /\ ~is_loser(board, hin.player) => hval.den # 0

(***************************************************************************)
(* C11: get_move called twice on the same unchanged state, each time with  *)
(* a fresh clock that behaves identically, returns the same move both      *)
(* times: nothing the first decision wrote influences the second.          *)
(***************************************************************************)
SecondDecision == pc = "done" /\ prev # <<>> /\ prev[1].op = op

SameMoveBothTimes == SecondDecision => ret.val = prev[1].val

\* a second iterative-deepening decision that completed two depths and
\* returned, as the first decision did, a move other than the first legal one
SameMoveBothTimesWitness ==
  /\ SecondDecision /\ op = "ab_get_move"
  /\ depth >= 3
  /\ ret.val # NoMove /\ ret.val # RootMoves[1]
  /\ ret.val = prev[1].val

(***************************************************************************)
(* C16: every recursive entry point (minimax, min_play, max_play,          *)
(* alphabeta, ab_min_play, ab_max_play) reads the clock as its first       *)
(* action and, when the reading is below TIMER_THRESHOLD, raises the       *)
(* timeout before it enumerates legal moves, generates a successor or      *)
(* calls the heuristic; after the timeout was raised nothing more is       *)
(* enumerated, generated or evaluated in that decision.                    *)
(***************************************************************************)
ClockReadFirst ==
  \A k \in 1..Len(trace) :
    /\ trace[k][1] = "call" =>
          /\ k + 1 <= Len(trace)
          /\ trace[k + 1][1] = "time_left"
    /\ trace[k][1] = "time_left" =>
          /\ k > 1 /\ trace[k - 1][1] = "call"
          /\ k + 1 <= Len(trace)
          /\ IF trace[k][2] < TIMER_THRESHOLD
             THEN trace[k + 1] = <<"raise">>
             ELSE trace[k + 1] = <<"get_legal_moves", trace[k - 1][3]>>
    /\ trace[k][1] = "raise" =>
          /\ k = Len(trace)
          /\ k > 1 /\ trace[k - 1][1] = "time_left"
    /\ trace[k][1] = "get_legal_moves" =>
          \/ k = 1 /\ op = "ab_get_move"
          \/ k > 1 /\ trace[k - 1][1] = "time_left"
    /\ trace[k][1] \in {"forecast_move", "score"} =>
          k > 1 /\ trace[k - 1][1] # "call"

\* a search cancelled at the entry of a recursive call, after states had
\* been evaluated and while the clock read exactly the threshold once
ClockReadFirstWitness ==
  /\ Done("minimax") /\ ret.exc
  /\ Has(trace, "score")
  /\ \E k \in 1..Len(trace) : trace[k] = <<"time_left", TIMER_THRESHOLD>>
  /\ trace[Len(trace)] = <<"raise">>

(***************************************************************************)
(* C17: from a root call alphabeta(state, d) with the default window,      *)
(* every call of ab_min_play and ab_max_play is entered with alpha < beta: *)
(* at every layer, the root maximizing layer included, no further sibling  *)
(* is explored once alpha >= beta.                                         *)
(***************************************************************************)
ABCalls == {k \in 1..Len(trace) :
              trace[k][1] = "call" /\ trace[k][2] \in {"ab_min_play", "ab_max_play"}}

EnteredWithOpenWindow == \A k \in ABCalls : trace[k][5] < trace[k][6]

\* The root layer has no alpha >= beta test (it stops only on score > beta,
\* which +inf never satisfies): below the root a later sibling is entered
\* with alpha < beta, and a window is closed only as alpha = beta = +inf,
\* handed down from a root whose earlier child scored +inf.
EnteredWithOpenWindowBelowRoot ==
  \A k \in ABCalls :
    LET path == trace[k][3]
        alpha == trace[k][5]
        beta == trace[k][6]
    IN /\ alpha < beta \/ (alpha = Inf /\ beta = Inf)
       /\ (Len(path) >= 2 /\ path[Len(path)][2] > 1) => alpha < beta
       /\ alpha >= beta =>
             \E j \in ABCalls : j <= k /\ Len(trace[j][3]) = 1 /\ trace[j][5] = Inf

\* the root went on to its second child although alpha = beta = +inf, and
\* that child handed the closed window to its own first child and cut there
EnteredWithOpenWindowWitness ==
  /\ Done("alphabeta") /\ ~ret.exc
  /\ \E k \in ABCalls : Len(trace[k][3]) = 1 /\ trace[k][5] = Inf /\ trace[k][6] = Inf
  /\ \E k \in ABCalls : Len(trace[k][3]) = 2 /\ trace[k][5] = Inf /\ trace[k][6] = Inf
  /\ Pruned(trace)

(***************************************************************************)
(* C18: on a root with at least one legal move, AlphaBetaPlayer.get_move   *)
(* runs the fixed-depth search at depths 1, 2, 3, ... in order, each one   *)
(* started after the one before it returned, and leaves the loop only      *)
(* when a search raises the timeout: it never returns while the clock      *)
(* still reads the threshold or more, even after a search deeper than the  *)
(* whole tree has returned.                                                *)
(***************************************************************************)
RootCalls == SelectSeq(trace, LAMBDA e : e[1] = "call" /\ e[2] = "alphabeta")

DeepensUntilCancelled ==
  (op = "ab_get_move" /\ RootMoves # <<>>) =>
     /\ \A i \in 1..Len(RootCalls) : RootCalls[i][3] = <<>> /\ RootCalls[i][4] = i
     /\ pc = "ab_loop" =>
           /\ depth = Len(RootCalls) + 1
           /\ ~Has(trace, "raise")
     /\ pc = "done" =>
           /\ depth = Len(RootCalls)
           /\ trace[Len(trace)] = <<"raise">>
           /\ trace[Len(trace) - 1][1] = "time_left"
           /\ trace[Len(trace) - 1][2] < TIMER_THRESHOLD
           /\ Len(Events(trace, "raise")) = 1
           /\ clk.rate # 0

\* the loop is still running after searches deeper than the tree returned
DeepensUntilCancelledWitness ==
  /\ op = "ab_get_move" /\ pc = "ab_loop"
  /\ RootMoves # <<>>
  /\ depth > MaxPly + 1
  /\ RootCalls[Len(RootCalls)][4] = MaxPly + 1

(***************************************************************************)
(* C19: every get_move returns.  MinimaxPlayer.get_move returns on every   *)
(* finite game tree whether or not the clock expires, and                  *)
(* AlphaBetaPlayer.get_move returns on every run whose clock eventually    *)
(* reads below TIMER_THRESHOLD.                                            *)
(***************************************************************************)
GetMoveReturns ==
  /\ [](op = "mm_get_move" => pc = "done")
  /\ (op = "ab_get_move" /\ clk.rate > 0) ~> (pc = "done")

\* an iterative-deepening decision that returned after its clock ran out
\* in the third search or later
GetMoveReturnsWitness ==
  /\ Done("ab_get_move") /\ clk.rate > 0
  /\ depth >= 3
  /\ clk.now < TIMER_THRESHOLD

(***************************************************************************)
(* What a diagonal Sudoku asks of a board, stated on the boxes themselves. *)
(***************************************************************************)
SameSquare(a, b) ==
  /\ (a[1] - 1) \div Side = (b[1] - 1) \div Side
  /\ (a[2] - 1) \div Side = (b[2] - 1) \div Side
SameDiagonal(a, b) ==
  \/ a[1] = a[2] /\ b[1] = b[2]
  \/ a[1] + a[2] = Width + 1 /\ b[1] + b[2] = Width + 1
Constrained(a, b) ==
  a # b /\ (a[1] = b[1] \/ a[2] = b[2] \/ SameSquare(a, b) \/ SameDiagonal(a, b))

\* the values dict the call started from
Given == IF op = "solve" THEN make_dictionary(puzzle.grid) ELSE puzzle.values

RECURSIVE CanFill(_, _, _)
\* some digit of each box's candidates, box after box, without a clash
CanFill(values, k, fill) ==
  IF k > Len(boxes) THEN TRUE
  ELSE \E d \in values[boxes[k]] :
         /\ \A j \in 1..(k - 1) : Constrained(boxes[j], boxes[k]) => fill[j] # d
         /\ CanFill(values, k + 1, Append(fill, d))

HasSolution(values) == CanFill(values, 1, <<>>)

GivenDigits == {k \in 1..Len(puzzle.grid) : puzzle.grid[k] # 0}

(***************************************************************************)
(* C12: search(values) and solve(grid) return the value False whenever the *)
(* puzzle has no solution, also when the contradiction is found only after *)
(* every candidate digit of the branching box was tried in recursive       *)
(* calls.                                                                  *)
(***************************************************************************)
UnsolvableReturnsFalse ==
  (pc = "done" /\ op \in {"solve", "search"} /\ ~HasSolution(Given)) =>
     answer = PyFalse

(***************************************************************************)
(* C13: whenever solve(grid) returns a dictionary it is a complete, valid  *)
(* diagonal Sudoku solution: every box holds exactly one digit, no two     *)
(* boxes of a row, column, square or main diagonal hold the same digit,    *)
(* and every given digit of the grid is kept.                              *)
(***************************************************************************)
SolveReturnsValidSolution ==
  (Done("solve") /\ answer.kind = "dict") =>
     /\ \A s \in BoxSet : Cardinality(answer.values[s]) = 1
     /\ \A a, b \in BoxSet : Constrained(a, b) => answer.values[a] # answer.values[b]
     /\ \A k \in GivenDigits : answer.values[boxes[k]] = {puzzle.grid[k]}

\* a grid with two given digits that constraint propagation alone left
\* open, solved by branching
SolveReturnsValidSolutionWitness ==
  /\ Done("solve") /\ answer.kind = "dict"
  /\ Cardinality(GivenDigits) = MaxGivens
  /\ LET reduced == reduce_puzzle(make_dictionary(puzzle.grid))
     IN /\ reduced.kind = "dict"
        /\ \E s \in BoxSet : Cardinality(reduced.values[s]) > 1

(***************************************************************************)
(* C14: after naked_twins(values) returns, in every unit that contains two *)
(* boxes with the same two-digit candidate string no other box of the unit *)
(* contains either of the two digits.                                      *)
(***************************************************************************)
NakedTwinsEliminated ==
  Done("naked_twins") =>
     \A u \in 1..Len(unit_list) :
       \A a, b \in Range(unit_list[u]) :
         (a # b /\ Cardinality(answer.values[a]) = 2
              /\ answer.values[a] = answer.values[b]) =>
            \A c \in Range(unit_list[u]) \ {a, b} :
               answer.values[c] \cap answer.values[a] = {}

(***************************************************************************)
(* C15: SelectorBIC.select returns the model with the lowest BIC among the *)
(* candidates n in [min_n_components, max_n_components] whose training and *)
(* scoring succeeded, the smallest n on ties; a failing candidate is       *)
(* skipped; when no candidate yields a score the result of                 *)
(* base_model(n_constant) is returned.                                     *)
(***************************************************************************)
Scored == {n \in data.min_n_components..data.max_n_components :
             data.fit[n] /\ ~data.score[n].exc}
BIC(n) == (0 - 2) * data.score[n].val
          + (n * n + 2 * n * data.n_features - 1) * data.log_N
LowestBIC == {n \in Scored : \A m \in Scored : BIC(n) <= BIC(m)}

SelectsLowestBIC ==
  Done("select") =>
     IF Scored = {}
     THEN selected = (IF data.fit[data.n_constant] THEN Model(data.n_constant) ELSE PyNone)
     ELSE /\ selected.kind = "model"
          /\ selected.n_components \in LowestBIC
          /\ \A n \in LowestBIC : selected.n_components <= n

\* the first candidate failed to train, the next two tie on the lowest BIC
\* and the smaller of them was selected
SelectsLowestBICWitness ==
  /\ Done("select")
  /\ ~data.fit[data.min_n_components]
  /\ Cardinality(LowestBIC) >= 2
  /\ selected.kind = "model"
  /\ \A n \in LowestBIC : selected.n_components <= n
  /\ selected.n_components > data.min_n_components

====
